---- MODULE Spec2Model ----
(***************************************************************************)
(* A model of pot (src/pot.py), a dotfile manager.  The state is the       *)
(* filesystem, the process environment (cwd, HOME) and the position of     *)
(* install() in its loop over the requested names.                         *)
(*                                                                         *)
(* Paths are absolute and written as sequences of components:              *)
(* <<"r", "dotfiles", "a">> is /r/dotfiles/a.  Text is a sequence of       *)
(* symbols; a path component is one symbol of a text.                      *)
(***************************************************************************)
EXTENDS Integers, Sequences, FiniteSets, TLC

VARIABLES
    fs,                 \* the filesystem: path -> node, for the paths that exist
    cwd,                \* os.getcwd()
    home,               \* os.environ['HOME']
    pc,                 \* position of install(): idle, loop, place, done, raised
    names,              \* install: the names the for loop has not reached yet
    force,              \* install: the force argument
    names_to_dotfiles,  \* install: name -> DotFile, from config.yaml
    cur,                \* install: the entry of the current iteration
    out,                \* what the run printed and logged so far
    results,            \* one record for each iteration the run has finished
    call,               \* the arguments of the run, the filesystem it started on and
                        \* the order in which the loop takes the names
    hist,               \* one record for each run that has ended
    config,             \* the Config object in memory
    stream,             \* the text to_yaml returned
    saved               \* cd: the old_cwd of every block that is open, innermost first

vars == <<fs, cwd, home, pc, names, force, names_to_dotfiles, cur, out, results, call, hist,
          config, stream, saved>>

(***************************************************************************)
(* Bounds                                                                  *)
(***************************************************************************)
MaxNames  == 2      \* length of an explicit list of requested names
MaxRuns   == 2      \* number of install runs in one behaviour
MaxTokens == 2      \* length, in tokens, of an initial text file
MaxLinks  == 3      \* symbolic links followed while resolving one path
MaxEntries == 2     \* entries of a Config that is serialized

(***************************************************************************)
(* The filesystem                                                          *)
(***************************************************************************)
File(c) == [kind |-> "file", content |-> c, target |-> <<>>]
Dir     == [kind |-> "dir",  content |-> <<>>, target |-> <<>>]
Link(t) == [kind |-> "link", content |-> <<>>, target |-> t]

NoPath == <<"ENOENT">>

Parent(p) == SubSeq(p, 1, Len(p) - 1)

IsPrefix(p, q) == Len(p) <= Len(q) /\ SubSeq(q, 1, Len(p)) = p

Without(f, ps) == [q \in DOMAIN f \ ps |-> f[q]]

With(f, g) == [q \in DOMAIN f \cup DOMAIN g |-> IF q \in DOMAIN g THEN g[q] ELSE f[q]]

\* the path a path resolves to when the links at its end are followed
RECURSIVE Follow(_, _, _)
Follow(f, p, n) ==
    IF p \notin DOMAIN f THEN NoPath
    ELSE IF f[p].kind # "link" THEN p
    ELSE IF n = 0 THEN NoPath
    ELSE Follow(f, f[p].target, n - 1)

realpath(f, p) == Follow(f, p, MaxLinks)

lexists(f, p) == p \in DOMAIN f

exists(f, p) == realpath(f, p) # NoPath

islink(f, p) == p \in DOMAIN f /\ f[p].kind = "link"

isdir(f, p) == exists(f, p) /\ f[realpath(f, p)].kind = "dir"

isfile(f, p) == exists(f, p) /\ f[realpath(f, p)].kind = "file"

samefile(f, a, b) == realpath(f, a) = realpath(f, b)

\* real_dir without the islink test: a link to a directory passes
real_dir_follows(f, path) == isdir(f, path)

real_dir(f, path) == ~islink(f, path) /\ isdir(f, path)

\* broken_link with lexists in place of exists: never true
broken_link_lexists(f, path) == islink(f, path) /\ ~lexists(f, path)

broken_link(f, path) == islink(f, path) /\ ~exists(f, path)

\* same_file_symlink with the islink test negated: a link never passes
same_file_symlink_strict(f, dst, src) ==
    ~islink(f, dst) /\ exists(f, dst) /\ samefile(f, src, dst)

same_file_symlink(f, dst, src) ==
    islink(f, dst) /\ exists(f, dst) /\ samefile(f, src, dst)

\* the directory that is to hold p exists (the root always does)
ParentIsDir(f, p) ==
    Len(p) = 1 \/ (Parent(p) \in DOMAIN f /\ f[Parent(p)].kind = "dir")

\* an operation of the OS ends normally with a new filesystem, or raises
Ok(f)  == [ok |-> TRUE, fs |-> f]
Raise(f) == [ok |-> FALSE, fs |-> f]

os_remove(f, p) ==
    IF p \notin DOMAIN f \/ f[p].kind = "dir" THEN Raise(f)
    ELSE Ok(Without(f, {p}))

rmtree(f, p) ==
    IF islink(f, p) \/ ~isdir(f, p) THEN Raise(f)
    ELSE Ok(Without(f, {q \in DOMAIN f : IsPrefix(p, q)}))

os_symlink(f, src, dst) ==
    IF dst \in DOMAIN f \/ ~ParentIsDir(f, dst) THEN Raise(f)
    ELSE Ok(With(f, [q \in {dst} |-> Link(src)]))

\* the proper prefixes of p
Ancestors(p) == {SubSeq(p, 1, i) : i \in 1..(Len(p) - 1)}

\* os.makedirs(p): p and the ancestors of p that are missing become directories
makedirs(f, p) ==
    IF p \in DOMAIN f
       \/ \E a \in Ancestors(p) : a \in DOMAIN f /\ f[a].kind # "dir"
    THEN Raise(f)
    ELSE Ok(With(f, [q \in (Ancestors(p) \cup {p}) \ DOMAIN f |-> Dir]))

\* shutil.copytree(src, dst), symlinks=False: listdir(src), makedirs(dst), then
\* every directory below src is made and every file below src is copied
copytree(f, src, dst) ==
    IF ~isdir(f, src) THEN Raise(f)
    ELSE IF ~makedirs(f, dst).ok THEN Raise(f)
    ELSE LET root  == realpath(f, src)
             below == {q \in DOMAIN f : IsPrefix(root, q) /\ q # root}
             to(q) == dst \o SubSeq(q, Len(root) + 1, Len(q))
             made  == makedirs(f, dst).fs
             copy  == [t \in {to(q) : q \in {b \in below : isdir(f, b) \/ isfile(f, b)}} |->
                         LET q == CHOOSE b \in below : to(b) = t
                         IN  IF isdir(f, q) THEN Dir ELSE File(f[realpath(f, q)].content)]
         IN  IF \E q \in below : ~exists(f, q)
             THEN Raise(With(made, copy))
             ELSE Ok(With(made, copy))

(***************************************************************************)
(* Text                                                                    *)
(***************************************************************************)
RECURSIVE Flatten(_)
Flatten(ss) == IF ss = <<>> THEN <<>> ELSE Head(ss) \o Flatten(Tail(ss))

\* the string of an absolute path: /r/dotfiles/a
RECURSIVE PathStr(_)
PathStr(p) == IF p = <<>> THEN <<>> ELSE <<"/", Head(p)>> \o PathStr(Tail(p))

\* DEFAULT_INCLUSION_FORMAT.format(src=src)
InclusionLine(src) == <<".", " ">> \o PathStr(src)

\* \s of the regular expression
IsSpace(c) == c \in {" ", "\n", "\t"}

AllSpace(text, i, j) == \A k \in i..j : IsSpace(text[k])

\* ^ and $ under re.MULTILINE, as positions 1..Len(text)+1 between the symbols
AtLineStart(text, i) == i = 1 \/ text[i - 1] = "\n"

AtLineEnd(text, i) == i = Len(text) + 1 \/ text[i] = "\n"

\* the search without ^, \s* and $: the line anywhere in the text
pattern_search_substring(line, text) ==
    \E j \in 1..(Len(text) + 1) :
        /\ j + Len(line) - 1 <= Len(text)
        /\ SubSeq(text, j, j + Len(line) - 1) = line

\* re.compile(r'^\s*{}\s*$'.format(re.escape(line)), re.MULTILINE).search(text)
pattern_search(line, text) ==
    \E i \in 1..(Len(text) + 1) :
        /\ AtLineStart(text, i)
        /\ \E j \in i..(Len(text) + 1) :
            /\ AllSpace(text, i, j - 1)
            /\ j + Len(line) - 1 <= Len(text)
            /\ SubSeq(text, j, j + Len(line) - 1) = line
            /\ \E k \in (j + Len(line))..(Len(text) + 1) :
                /\ AllSpace(text, j + Len(line), k - 1)
                /\ AtLineEnd(text, k)

\* the body of `with open(dst, 'r+') as target:`; found tells whether the
\* inclusion line was found and nothing written
include_file(f, src, dst) ==
    LET q    == realpath(f, dst)
        line == InclusionLine(src)
    IN  IF q = NoPath \/ f[q].kind # "file" THEN [ok |-> FALSE, fs |-> f, found |-> FALSE]
        ELSE IF pattern_search(line, f[q].content) THEN [ok |-> TRUE, fs |-> f, found |-> TRUE]
        ELSE [ok |-> TRUE, found |-> FALSE,
              fs |-> [f EXCEPT ![q] = File(f[q].content \o line \o <<"\n">>)]]

(***************************************************************************)
(* The manifest                                                            *)
(***************************************************************************)
\* DotFile.__init__: df is one mapping of the document, name |-> ..., with
\* or without the keys target and action
DotFile(df) ==
    [name   |-> df.name,
     target |-> IF "target" \in DOMAIN df THEN df.target ELSE <<"~", df.name>>,
     action |-> IF "action" \in DOMAIN df THEN df.action ELSE "symlink"]

\* A YAML text is a sequence of lines.  A line holds its mark ("-" where a
\* mapping of the sequence begins), the text of its key, the style of its
\* scalar and the text of its scalar.  The text of a name or an action is one
\* symbol, the text of a target is its path.
Line(mark, key, style, value) == [mark |-> mark, key |-> key, style |-> style, value |-> value]

StrTag == "tag:yaml.org,2002:str"

\* the tag the resolver of YAML gives to a plain scalar of this text
ImplicitTag(text) ==
    IF text = <<"1">> THEN "tag:yaml.org,2002:int"
    ELSE IF text = <<"~">> THEN "tag:yaml.org,2002:null"
    ELSE StrTag

\* yaml_scalar without its tag: the node gets the tag of the resolver
yaml_scalar_untagged(value) == [tag |-> ImplicitTag(value), value |-> value]

yaml_scalar(value) == [tag |-> StrTag, value |-> value]

yaml_map(items) == [tag |-> "tag:yaml.org,2002:map", value |-> items]

yaml_seq(elems) == [tag |-> "tag:yaml.org,2002:seq", value |-> elems]

\* DotFile._as_yaml_node with the pairs in the order of the keys
DotFile_as_yaml_node_sorted(d) ==
    yaml_map(<< <<yaml_scalar(<<"action">>), yaml_scalar(<<d.action>>)>>,
                <<yaml_scalar(<<"name">>),   yaml_scalar(<<d.name>>)>>,
                <<yaml_scalar(<<"target">>), yaml_scalar(d.target)>> >>)

DotFile_as_yaml_node(d) ==
    yaml_map(<< <<yaml_scalar(<<"name">>),   yaml_scalar(<<d.name>>)>>,
                <<yaml_scalar(<<"target">>), yaml_scalar(d.target)>>,
                <<yaml_scalar(<<"action">>), yaml_scalar(<<d.action>>)>> >>)

\* Config._as_yaml_node; map() gives a list
Config_as_yaml_node(dotfiles) ==
    yaml_map(<< <<yaml_scalar(<<"dotfiles">>),
                  yaml_seq([i \in DOMAIN dotfiles |-> DotFile_as_yaml_node(dotfiles[i])])>> >>)

\* a scalar is written plain when the resolver gives its text the tag of the
\* node, and quoted otherwise
Style(node) == IF ImplicitTag(node.value) = node.tag THEN "plain" ELSE "quoted"

\* the lines of one mapping of the sequence, in the order of its pairs
ItemLines(item) ==
    [j \in DOMAIN item.value |->
        Line(IF j = 1 THEN "-" ELSE " ", item.value[j][1].value,
             Style(item.value[j][2]), item.value[j][2].value)]

\* yaml.serialize of the node of a Config: the key, then the mappings in block
\* style, or [] for no mapping
serialize(node) ==
    LET key == node.value[1][1].value
        seq == node.value[1][2].value
    IN  IF seq = <<>> THEN <<Line("", key, "flow", <<>>)>>
        ELSE <<Line("", key, "block", <<>>)>> \o Flatten([i \in DOMAIN seq |-> ItemLines(seq[i])])

\* Config.to_yaml
to_yaml(dotfiles) == serialize(Config_as_yaml_node(dotfiles))

\* the object yaml.load makes of a scalar: a string for a quoted scalar and
\* for a plain one that resolves to str; any other object is written here as
\* its tag followed by its text
Construct(line) ==
    IF line.style = "plain" /\ ImplicitTag(line.value) # StrTag
    THEN <<ImplicitTag(line.value)>> \o line.value
    ELSE line.value

\* yaml.load: the dictionary of the document, its key bound to the list of
\* the mappings; a mapping runs from a line marked "-" to the next one
yaml_load(text) ==
    LET starts  == {i \in DOMAIN text : text[i].mark = "-"}
        nth(n)  == CHOOSE i \in starts : Cardinality({j \in starts : j <= i}) = n
        last(i) == CHOOSE j \in i..Len(text) :
                       /\ j = Len(text) \/ text[j + 1].mark = "-"
                       /\ \A k \in (i + 1)..j : text[k].mark # "-"
        at(i, k) == CHOOSE j \in i..last(i) :
                       /\ text[j].key = <<k>>
                       /\ \A m \in (j + 1)..last(i) : text[m].key # <<k>>
        value(j) == IF text[j].key = <<"target">> THEN Construct(text[j])
                    ELSE Construct(text[j])[1]
        mapping(i) == [k \in {text[j].key[1] : j \in i..last(i)} |-> value(at(i, k))]
    IN  [k \in {text[1].key[1]} |-> [n \in 1..Cardinality(starts) |-> mapping(nth(n))]]

\* Config.from_yaml
from_yaml(text) ==
    LET d == yaml_load(text)
        dotfiles == IF "dotfiles" \in DOMAIN d THEN d["dotfiles"] ELSE <<>>
    IN  [i \in DOMAIN dotfiles |-> DotFile(dotfiles[i])]


\* {df.name: df for df in config.dotfiles}: a later entry replaces an earlier
\* one of the same name
NamesToDotfiles(dotfiles) ==
    [n \in {dotfiles[i].name : i \in DOMAIN dotfiles} |->
        dotfiles[CHOOSE i \in DOMAIN dotfiles :
                    /\ dotfiles[i].name = n
                    /\ \A j \in DOMAIN dotfiles : dotfiles[j].name = n => j <= i]]

\* the orders in which a dictionary may list its keys
Orders(S) == {s \in [1..Cardinality(S) -> S] : \A i, j \in DOMAIN s : s[i] = s[j] => i = j}

\* line 248 without expanduser
expanduser_skipped(hm, target) == target

\* os.path.expanduser
expanduser(hm, target) ==
    IF target # <<>> /\ Head(target) = "~" THEN hm \o Tail(target) ELSE target

\* line 244 with the name left out of the join: src is the dotfiles directory
SrcOf_DotfilesDir(wd, name) == wd \o <<"dotfiles">>

\* os.path.abspath(os.path.join('dotfiles', name))
SrcOf(wd, name) == wd \o <<"dotfiles", name>>

ConfigPath(wd) == wd \o <<"config.yaml">>

(***************************************************************************)
(* install(names=None, force=False)                                        *)
(***************************************************************************)
Event(level, msg, arg) == [level |-> level, msg |-> msg, arg |-> arg]

NoCur == [name |-> "", target |-> <<>>, action |-> "", src |-> <<>>, dst |-> <<>>,
          removal |-> "", pre |-> <<>>]

NoCall == [all |-> FALSE, names |-> <<>>, force |-> FALSE, before |-> <<>>, order |-> <<>>]

\* the entry of the iteration that takes name from the head of names
Entry(name) ==
    LET dotfile == names_to_dotfiles[name]
    IN  [name |-> name, target |-> dotfile.target, action |-> dotfile.action,
         src |-> SrcOf(cwd, dotfile.name), dst |-> expanduser(home, dotfile.target),
         removal |-> "", pre |-> fs]

\* what one iteration did: said is what it printed and logged
Result(e, result, post, said) ==
    [name |-> e.name, target |-> e.target, action |-> e.action, src |-> e.src,
     dst |-> e.dst, removal |-> e.removal, pre |-> e.pre, post |-> post,
     result |-> result, said |-> said]

\* the iteration ends with break in place of continue: the loop is left
Continue_Break(e, result, post, events) ==
    /\ fs' = post
    /\ out' = out \o events
    /\ results' = Append(results, Result(e, result, post, events))
    /\ cur' = NoCur
    /\ pc' = "done"

\* the iteration ends normally (also by continue) and the loop goes on
Continue(e, result, post, events) ==
    /\ fs' = post
    /\ out' = out \o events
    /\ results' = Append(results, Result(e, result, post, events))
    /\ cur' = NoCur
    /\ pc' = "loop"

\* report_action with suppress unset: the exception is logged and raised again,
\* it leaves install
Raised(e, post, events) ==
    /\ fs' = post
    /\ out' = out \o events \o <<Event("error", "Failed", e.dst)>>
    /\ results' = Append(results,
                          Result(e, "failed", post, events \o <<Event("error", "Failed", e.dst)>>))
    /\ cur' = NoCur
    /\ pc' = "raised"

\* a behaviour runs one command line, up to MaxRuns times
Repeats(all, ns, f) ==
    /\ all = hist[1].call.all
    /\ ns = hist[1].call.names
    /\ f = hist[1].call.force

\* the names a caller asks for are names of the manifest and z, which stands
\* for every name the manifest does not have
Asked(f, ns) ==
    LET known == IF exists(f, ConfigPath(cwd))
                 THEN DOMAIN NamesToDotfiles(from_yaml(f[realpath(f, ConfigPath(cwd))].content))
                 ELSE {}
    IN  \A i \in DOMAIN ns : ns[i] \in known \cup {"z"}

\* lines 229-237: the configuration is read and the names are chosen
Install(all, ns, f) ==
    /\ pc = "idle"
    /\ Len(hist) < MaxRuns
    /\ hist # <<>> => Repeats(all, ns, f)
    /\ Asked(fs, ns)
    /\ force' = f
    /\ results' = <<>>
    /\ IF ~exists(fs, ConfigPath(cwd))
       THEN /\ out' = <<Event("error", "Configuration file not found.", <<>>)>>
            /\ pc' = "done"
            /\ UNCHANGED <<names, names_to_dotfiles, config>>
            /\ call' = [all |-> all, names |-> ns, force |-> f, before |-> fs, order |-> <<>>]
       ELSE LET loaded == from_yaml(fs[realpath(fs, ConfigPath(cwd))].content)
                byname == NamesToDotfiles(loaded)
            IN  /\ config' = loaded
                /\ names_to_dotfiles' = byname
                /\ IF all THEN names' \in Orders(DOMAIN byname) ELSE names' = ns
                /\ call' = [all |-> all, names |-> ns, force |-> f, before |-> fs,
                            order |-> names']
                /\ out' = <<>>
                /\ pc' = "loop"
    /\ UNCHANGED <<fs, cwd, home, cur, hist, stream, saved>>

\* lines 239-241
NoSuchFile ==
    /\ pc = "loop" /\ names # <<>>
    /\ Head(names) \notin DOMAIN names_to_dotfiles
    /\ names' = Tail(names)
    /\ Continue([NoCur EXCEPT !.name = Head(names), !.pre = fs], "nosuch", fs,
                <<Event("error", "No such file", <<Head(names)>>)>>)
    /\ UNCHANGED <<cwd, home, force, names_to_dotfiles, call, hist>>
    /\ UNCHANGED <<config, stream, saved>>

\* lines 242-247
MissingSource ==
    /\ pc = "loop" /\ names # <<>>
    /\ Head(names) \in DOMAIN names_to_dotfiles
    /\ LET e == Entry(Head(names))
       IN  /\ ~exists(fs, e.src)
           /\ Continue(e, "missing", fs, <<Event("error", "Dotfile doesn't exists", e.src)>>)
    /\ names' = Tail(names)
    /\ UNCHANGED <<cwd, home, force, names_to_dotfiles, call, hist>>
    /\ UNCHANGED <<config, stream, saved>>

\* line 252 with islink in place of the two tests of the link
Eligible_AnyLink(f, frc, dst, src) == frc \/ islink(f, dst)

\* line 252
Eligible(f, frc, dst, src) == frc \/ broken_link(f, dst) \/ same_file_symlink(f, dst, src)

\* line 251 without the test of the action: include removes too
NeedsRemoval_AnyAction(f, e) == lexists(f, e.dst)

\* line 251 with exists in place of lexists: a broken link is not seen
NeedsRemoval_Exists(f, e) == e.action \in {"symlink", "copy"} /\ exists(f, e.dst)

\* line 251
NeedsRemoval(f, e) == e.action \in {"symlink", "copy"} /\ lexists(f, e.dst)

\* lines 251, 260-262
Conflict ==
    /\ pc = "loop" /\ names # <<>>
    /\ Head(names) \in DOMAIN names_to_dotfiles
    /\ LET e == Entry(Head(names))
       IN  /\ exists(fs, e.src)
           /\ NeedsRemoval(fs, e)
           /\ ~Eligible(fs, force, e.dst, e.src)
           /\ Continue(e, "conflict", fs, <<Event("error", "File exists", e.dst)>>)
    /\ names' = Tail(names)
    /\ UNCHANGED <<cwd, home, force, names_to_dotfiles, call, hist>>
    /\ UNCHANGED <<config, stream, saved>>

\* lines 256-259
RemovalOf(f, dst) == IF real_dir(f, dst) THEN "rmtree" ELSE "remove"

\* lines 251-259
Remove ==
    /\ pc = "loop" /\ names # <<>>
    /\ Head(names) \in DOMAIN names_to_dotfiles
    /\ LET e == Entry(Head(names))
           how == RemovalOf(fs, e.dst)
           r == IF how = "rmtree" THEN rmtree(fs, e.dst) ELSE os_remove(fs, e.dst)
           ee == [e EXCEPT !.removal = how]
       IN  /\ exists(fs, e.src)
           /\ NeedsRemoval(fs, e)
           /\ Eligible(fs, force, e.dst, e.src)
           /\ IF r.ok
              THEN /\ fs' = r.fs
                   /\ cur' = ee
                   /\ pc' = "place"
                   /\ UNCHANGED <<out, results>>
              ELSE Raised(ee, r.fs, <<>>)
    /\ names' = Tail(names)
    /\ UNCHANGED <<cwd, home, force, names_to_dotfiles, call, hist>>
    /\ UNCHANGED <<config, stream, saved>>

\* line 251 is false: nothing is removed
Keep ==
    /\ pc = "loop" /\ names # <<>>
    /\ Head(names) \in DOMAIN names_to_dotfiles
    /\ LET e == Entry(Head(names))
       IN  /\ exists(fs, e.src)
           /\ ~NeedsRemoval(fs, e)
           /\ cur' = e
    /\ pc' = "place"
    /\ names' = Tail(names)
    /\ UNCHANGED <<fs, cwd, home, force, names_to_dotfiles, out, results, call, hist>>
    /\ UNCHANGED <<config, stream, saved>>

\* lines 263-265
Symlink ==
    /\ pc = "place" /\ cur.action = "symlink"
    /\ LET r == os_symlink(fs, cur.src, cur.dst)
           said == <<Event("print", "Symlinking", cur.dst)>>
       IN  IF r.ok THEN Continue(cur, "symlinked", r.fs, said)
           ELSE Raised(cur, r.fs, said)
    /\ UNCHANGED <<cwd, home, names, force, names_to_dotfiles, call, hist>>
    /\ UNCHANGED <<config, stream, saved>>

\* lines 266-268
Copy ==
    /\ pc = "place" /\ cur.action = "copy"
    /\ LET r == copytree(fs, cur.src, cur.dst)
           said == <<Event("print", "Copying", cur.dst)>>
       IN  IF r.ok THEN Continue(cur, "copied", r.fs, said)
           ELSE Raised(cur, r.fs, said)
    /\ UNCHANGED <<cwd, home, names, force, names_to_dotfiles, call, hist>>
    /\ UNCHANGED <<config, stream, saved>>

\* lines 269-281
Include ==
    /\ pc = "place" /\ cur.action = "include"
    /\ LET r == include_file(fs, cur.src, cur.dst)
           said == <<Event("print", "Including", cur.dst)>>
       IN  IF ~r.ok THEN Raised(cur, r.fs, said)
           ELSE IF r.found
           THEN Continue(cur, "found", r.fs, said \o <<Event("info", "Skipped", cur.dst)>>)
           ELSE Continue(cur, "included", r.fs, said)
    /\ UNCHANGED <<cwd, home, names, force, names_to_dotfiles, call, hist>>
    /\ UNCHANGED <<config, stream, saved>>

\* lines 263-269: no branch of the if/elif chain takes the action
NoAction ==
    /\ pc = "place" /\ cur.action \notin {"symlink", "copy", "include"}
    /\ Continue(cur, "nothing", fs, <<>>)
    /\ UNCHANGED <<cwd, home, names, force, names_to_dotfiles, call, hist>>
    /\ UNCHANGED <<config, stream, saved>>

\* the end of the loop with the Config written back to config.yaml
Return_Saves ==
    /\ pc = "loop" /\ names = <<>>
    /\ pc' = "done"
    /\ fs' = [fs EXCEPT ![realpath(fs, ConfigPath(cwd))] = File(to_yaml(config))]
    /\ UNCHANGED <<cwd, home, names, force, names_to_dotfiles, cur, out, results, call, hist>>
    /\ UNCHANGED <<config, stream, saved>>

\* line 238: the names are exhausted
Return ==
    /\ pc = "loop" /\ names = <<>>
    /\ pc' = "done"
    /\ UNCHANGED <<fs, cwd, home, names, force, names_to_dotfiles, cur, out, results, call, hist>>
    /\ UNCHANGED <<config, stream, saved>>

\* main, lines 329-333: the process ends, with status 1 if install raised
Exit ==
    /\ pc \in {"done", "raised"}
    /\ hist' = Append(hist, [call |-> call, results |-> results, out |-> out, after |-> fs,
                             status |-> IF pc = "raised" THEN 1 ELSE 0])
    /\ pc' = "idle"
    /\ UNCHANGED <<fs, cwd, home, names, force, names_to_dotfiles, cur, out, results, call>>
    /\ UNCHANGED <<config, stream, saved>>

(***************************************************************************)
(* Initial states: a repository /r with its config.yaml and dotfiles       *)
(* directory, a home directory, and a directory /o outside of both.        *)
(***************************************************************************)
Names == {"a", "b"}

Requested == Names \cup {"z"}

Homes == {<<"h">>}

Repo == <<"r">>

Other == <<"o">>

One(p, node) == [q \in {p} |-> node]

Nothing == [q \in {} |-> Dir]

\* the texts an existing file may hold when install meets it: up to
\* MaxTokens of a newline, a blank, another symbol, and the line itself
Texts(line) ==
    LET Tokens == {<<"\n">>, <<" ">>, <<"x">>, line}
    IN  {Flatten(ss) : ss \in UNION {[1..n -> Tokens] : n \in 0..MaxTokens}}

SrcKinds == {"absent", "file", "dir"}

DstKinds == {"absent", "file", "dir", "same", "other", "broken", "via"}

SrcPiece(src, kind) ==
    CASE kind = "file" -> One(src, File(<<"1", "\n">>))
      [] kind = "dir"  -> With(One(src, Dir), One(src \o <<"f">>, File(<<"2", "\n">>)))
      [] OTHER         -> Nothing

\* what is at dst, and the directories above it; kind noparent leaves both out
DstPiece(dst, kind, src, text) ==
    LET above == [q \in Ancestors(dst) |-> Dir]
        at == CASE kind = "file"   -> One(dst, File(text))
                [] kind = "dir"    -> With(One(dst, Dir), One(dst \o <<"f">>, File(<<"3", "\n">>)))
                [] kind = "same"   -> One(dst, Link(src))
                [] kind = "other"  -> One(dst, Link(Other))
                [] kind = "broken" -> One(dst, Link(Other \o <<"none">>))
                [] kind = "via"    -> With(One(dst, Link(Other \o <<"l">>)),
                                           One(Other \o <<"l">>, Link(src)))
                [] OTHER           -> Nothing
    IN  IF kind = "noparent" THEN Nothing ELSE With(above, at)

Base(hm) ==
    With(With(One(Repo, Dir), One(Repo \o <<"dotfiles">>, Dir)),
         With(One(hm, Dir), With(One(Other, Dir), One(Other \o <<"f">>, File(<<"4", "\n">>)))))

\* one mapping of the document and what the filesystem holds for it
Piece(hm, d, srckind, dstkind, text) ==
    LET src == SrcOf(Repo, d.name)
        dst == expanduser(hm, DotFile(d).target)
    IN  With(SrcPiece(src, srckind), DstPiece(dst, dstkind, src, text))

Plain == <<"x", "\n">>

Actions == {"symlink", "copy", "include"}

\* the mappings of one name: the name alone, or all three keys
Mappings(n, targets, actions) ==
    {[name |-> n]} \cup {[name |-> n, target |-> t, action |-> a] : t \in targets, a \in actions}

\* a config.yaml written by hand: the keys a mapping has, in the order name,
\* target, action
MappingLines(d) ==
    LET keys == SelectSeq(<<"name", "target", "action">>, LAMBDA k : k \in DOMAIN d)
    IN  [j \in DOMAIN keys |->
            Line(IF j = 1 THEN "-" ELSE " ", <<keys[j]>>, "plain",
                 IF keys[j] = "target" THEN d[keys[j]] ELSE <<d[keys[j]]>>)]

Document(doc) ==
    IF doc = <<>> THEN <<Line("", <<"dotfiles">>, "flow", <<>>)>>
    ELSE <<Line("", <<"dotfiles">>, "block", <<>>)>> \o Flatten([i \in DOMAIN doc |-> MappingLines(doc[i])])

\* one entry in every combination of action, source and destination
SceneOne(hm) ==
    {[doc |-> <<d>>, fs |-> Piece(hm, d, sk, dk, Plain)] :
        d \in Mappings("a", {<<"~", "a">>}, Actions \cup {"move"}),
        sk \in SrcKinds, dk \in DstKinds}
    \cup
    {[doc |-> <<d>>, fs |-> Piece(hm, d, sk, dk, Plain)] :
        d \in {[name |-> "a", target |-> t, action |-> a] :
                  t \in {<<"~", "c", "a">>, Other \o <<"a">>}, a \in Actions},
        sk \in SrcKinds, dk \in {"absent", "file", "noparent"}}

\* two entries, of two names or of one
SceneTwo(hm) ==
    {[doc |-> <<d1, d2>>,
      fs |-> With(Piece(hm, d1, sk1, dk1, Plain),
                  Piece(hm, d2, IF d2.name = d1.name THEN sk1 ELSE sk2, dk2, Plain))] :
        d1 \in {[name |-> "a", target |-> <<"~", "a">>, action |-> a] : a \in Actions},
        d2 \in {[name |-> n, target |-> <<"~", "b">>, action |-> a] :
                  n \in Names, a \in {"symlink", "include"}},
        sk1 \in SrcKinds, sk2 \in {"absent", "file"},
        dk1 \in {"absent", "file"}, dk2 \in {"absent", "file"}}

\* an include entry whose destination holds any of the texts
SceneText(hm) ==
    LET d == [name |-> "a", target |-> <<"~", "a">>, action |-> "include"]
    IN  {[doc |-> <<d>>, fs |-> Piece(hm, d, "file", "file", text)] :
            text \in Texts(InclusionLine(SrcOf(Repo, "a")))}

Scenes(hm) == SceneOne(hm) \cup SceneTwo(hm) \cup SceneText(hm)

Init ==
    /\ cwd = Repo
    /\ home \in Homes
    /\ \/ \E sc \in Scenes(home) :
            fs = With(One(ConfigPath(Repo), File(Document(sc.doc))), With(sc.fs, Base(home)))
       \/ fs = With(One(ConfigPath(Repo), File(Document(<<>>))), Base(home))
       \/ fs = Base(home)
    /\ pc = "idle"
    /\ names = <<>>
    /\ force = FALSE
    /\ names_to_dotfiles = Nothing
    /\ cur = NoCur
    /\ out = <<>>
    /\ results = <<>>
    /\ call = NoCall
    /\ hist = <<>>
    /\ config = <<>>
    /\ stream = <<>>
    /\ saved = <<>>

\* the lists of names a caller may pass
NameLists == UNION {[1..n -> Requested] : n \in 0..MaxNames}

Next ==
    \/ \E f \in BOOLEAN : Install(TRUE, <<>>, f)
    \/ \E ns \in NameLists, f \in BOOLEAN : Install(FALSE, ns, f)
    \/ NoSuchFile
    \/ MissingSource
    \/ Conflict
    \/ Remove
    \/ Keep
    \/ Symlink
    \/ Copy
    \/ Include
    \/ NoAction
    \/ Return
    \/ Exit

Spec == Init /\ [][Next]_vars

TypeOK ==
    /\ pc \in {"idle", "loop", "place", "done", "raised"}
    /\ \A p \in DOMAIN fs : fs[p].kind \in {"file", "dir", "link"} /\ ParentIsDir(fs, p)

(***************************************************************************)
(* Config.to_yaml and Config.from_yaml: a Config is built from the         *)
(* arguments of DotFile, serialized, and loaded from the text.             *)
(***************************************************************************)
\* names of dotfiles; a plain scalar 1 is the integer
YamlNames == {"a", "1"}

\* the keyword arguments of DotFile(...)
Arguments ==
    UNION {Mappings(n, {<<"~", "c", n>>, <<"c", n>>}, {"symlink", "copy"})
             \cup {[name |-> n, action |-> "include"]} : n \in YamlNames}

InitYaml ==
    /\ \E args \in UNION {[1..n -> Arguments] : n \in 0..MaxEntries} :
          /\ call = [args |-> args]
          /\ config = [i \in DOMAIN args |-> DotFile(args[i])]
    /\ stream = <<>>
    /\ pc = "idle"
    /\ fs = Nothing
    /\ cwd = Repo
    /\ home = <<"h">>
    /\ names = <<>>
    /\ force = FALSE
    /\ names_to_dotfiles = Nothing
    /\ cur = NoCur
    /\ out = <<>>
    /\ results = <<>>
    /\ hist = <<>>
    /\ saved = <<>>

\* config.to_yaml()
ToYaml ==
    /\ pc = "idle"
    /\ stream' = to_yaml(config)
    /\ pc' = "dumped"
    /\ UNCHANGED <<fs, cwd, home, names, force, names_to_dotfiles, cur, out, results, call, hist,
                   config, saved>>

\* Config.from_yaml(text); hist keeps the Config that was serialized
FromYaml ==
    /\ pc = "dumped"
    /\ config' = from_yaml(stream)
    /\ hist' = Append(hist, [config |-> config])
    /\ pc' = "loaded"
    /\ UNCHANGED <<fs, cwd, home, names, force, names_to_dotfiles, cur, out, results, call,
                   stream, saved>>

NextYaml ==
    \/ ToYaml
    \/ FromYaml

SpecYaml == InitYaml /\ [][NextYaml]_vars

(***************************************************************************)
(* init(path, git_url=None), with cd and clone_git_repo                    *)
(***************************************************************************)
\* a path argument: relative to the working directory, or absolute
Rel(p) == [rel |-> TRUE, p |-> p]

Abs(p) == [rel |-> FALSE, p |-> p]

\* the absolute path a path argument stands for in the working directory wd
AbsPath(wd, path) == IF path.rel THEN wd \o path.p ELSE path.p

\* cd without try/finally: an exception in the body leaves the directory as it is
cd_exit_no_finally(old_cwd, now, raised) == IF raised THEN now ELSE old_cwd

\* the end of a cd block, lines 113-115: finally, os.chdir(old_cwd)
cd_exit(old_cwd, now, raised) == old_cwd

\* the characters of a file name, the first one apart
Chars(n) ==
    CASE n = ".a"          -> <<".", "a">>
      [] n = ".b"          -> <<".", "b">>
      [] n = ".git"        -> <<".", "git">>
      [] n = ".gitmodules" -> <<".", "gitmodules">>
      [] OTHER             -> <<n>>

\* the pattern ** in place of .**: every name matches
fnmatch_any(chars) == TRUE

\* fnmatch of a name against .**: a dot, then anything
fnmatch(chars) == chars # <<>> /\ Head(chars) = "."

\* the names os.listdir gives for a directory
listdir(f, dir) == {q[Len(q)] : q \in {x \in DOMAIN f : x # <<>> /\ Parent(x) = dir}}

\* glob.glob(os.path.join('dotfiles', '.**')), as the names of the paths found
glob_hidden(f, dir) ==
    IF isdir(f, dir) THEN {n \in listdir(f, dir) : fnmatch(Chars(n))} ELSE {}

\* what git clone may leave in dotfiles
Clones ==
    {With(One(<<".git">>, Dir), One(<<".a">>, File(<<"1", "\n">>))),
     With(One(<<".git">>, Dir),
          With(One(<<".gitmodules">>, File(<<"5", "\n">>)), One(<<"c">>, File(<<"6", "\n">>))))}

\* the tree placed below the directory dir
Under(dir, tree) == [q \in {dir \o t : t \in DOMAIN tree} |-> tree[SubSeq(q, Len(dir) + 1, Len(q))]]

Failed == Event("error", "Failed", <<>>)

\* lines 212-215
init_begin(path, git_url) ==
    /\ pc = "idle"
    /\ hist = <<>>
    /\ LET p == AbsPath(cwd, path)
           r == IF exists(fs, p) THEN Ok(fs) ELSE makedirs(fs, p)
       IN  /\ fs' = r.fs
           /\ pc' = IF ~r.ok THEN "raised" ELSE IF git_url THEN "clone" ELSE "scan"
    /\ call' = [path |-> path, git_url |-> git_url, cwd |-> cwd, before |-> fs]
    /\ out' = <<>>
    /\ UNCHANGED <<cwd, home, names, force, names_to_dotfiles, cur, results, hist,
                   config, stream, saved>>

\* lines 216-217: report_action(suppress=True) and cd(path) are entered
init_clone_cd ==
    /\ pc = "clone"
    /\ LET p == AbsPath(cwd, call.path)
           said == <<Event("print", "Cloning", <<>>)>>
       IN  IF isdir(fs, p)
           THEN /\ saved' = <<cwd>> \o saved
                /\ cwd' = p
                /\ out' = out \o said
                /\ pc' = "git"
           ELSE /\ saved' = saved
                /\ cwd' = cd_exit(cwd, cwd, TRUE)
                /\ out' = out \o said \o <<Failed>>
                /\ pc' = "scan"
    /\ UNCHANGED <<fs, home, names, force, names_to_dotfiles, cur, results, call, hist,
                   config, stream>>

\* line 205: git clone url dotfiles; when it fails the exception leaves
\* cd(path) and report_action logs it
clone_git_repo(ok, tree) ==
    /\ pc = "git"
    /\ ok => ~lexists(fs, cwd \o <<"dotfiles">>)
    /\ IF ok
       THEN /\ fs' = With(fs, With(One(cwd \o <<"dotfiles">>, Dir),
                                    Under(cwd \o <<"dotfiles">>, tree)))
            /\ pc' = "sub"
            /\ UNCHANGED <<cwd, saved, out>>
       ELSE /\ cwd' = cd_exit(Head(saved), cwd, TRUE)
            /\ saved' = Tail(saved)
            /\ out' = out \o <<Failed>>
            /\ pc' = "scan"
            /\ UNCHANGED fs
    /\ UNCHANGED <<home, names, force, names_to_dotfiles, cur, results, call, hist,
                   config, stream>>

\* line 206: cd('dotfiles') is entered
clone_cd_dotfiles ==
    /\ pc = "sub"
    /\ saved' = <<cwd>> \o saved
    /\ cwd' = cwd \o <<"dotfiles">>
    /\ pc' = "modules"
    /\ UNCHANGED <<fs, home, names, force, names_to_dotfiles, cur, out, results, call, hist,
                   config, stream>>

\* lines 207-209: git submodule init and update, which may fail, where
\* .gitmodules exists; then cd('dotfiles') and cd(path) are left
clone_submodules(ok) ==
    /\ pc = "modules"
    /\ ~ok => exists(fs, cwd \o <<".gitmodules">>)
    /\ LET inner == cd_exit(saved[1], cwd, ~ok)
           outer == cd_exit(saved[2], inner, ~ok)
       IN  cwd' = outer
    /\ saved' = Tail(Tail(saved))
    /\ out' = IF ok THEN out ELSE out \o <<Failed>>
    /\ pc' = "scan"
    /\ UNCHANGED <<fs, home, names, force, names_to_dotfiles, cur, results, call, hist,
                   config, stream>>

\* line 218: cd(path) is entered; an exception of chdir leaves init
init_cd ==
    /\ pc = "scan"
    /\ LET p == AbsPath(cwd, call.path)
       IN  IF isdir(fs, p)
           THEN /\ saved' = <<cwd>> \o saved
                /\ cwd' = p
                /\ pc' = "populate"
           ELSE /\ saved' = saved
                /\ cwd' = cd_exit(cwd, cwd, TRUE)
                /\ pc' = "raised"
    /\ UNCHANGED <<fs, home, names, force, names_to_dotfiles, cur, out, results, call, hist,
                   config, stream>>

\* lines 219-226: dotfiles is made, the hidden names are listed in the order
\* of the directory, the Config is written to config.yaml; cd(path) is left
init_populate ==
    /\ pc = "populate"
    /\ LET dir  == cwd \o <<"dotfiles">>
           made == IF exists(fs, dir) THEN fs ELSE With(fs, One(dir, Dir))
           path == ConfigPath(cwd)
           writable == path \notin DOMAIN made \/ made[path].kind = "file"
       IN  \E order \in Orders(glob_hidden(made, dir)) :
             LET dotfiles == [i \in DOMAIN order |-> DotFile([name |-> order[i]])]
             IN  /\ config' = dotfiles
                 /\ fs' = IF writable THEN With(made, One(path, File(to_yaml(dotfiles))))
                          ELSE made
                 /\ cwd' = cd_exit(Head(saved), cwd, ~writable)
                 /\ pc' = IF writable THEN "done" ELSE "raised"
    /\ saved' = Tail(saved)
    /\ UNCHANGED <<home, names, force, names_to_dotfiles, cur, out, results, call, hist, stream>>

\* main, lines 329-333
init_exit ==
    /\ pc \in {"done", "raised"}
    /\ hist' = Append(hist, [call |-> call, out |-> out, after |-> fs, cwd |-> cwd,
                             status |-> IF pc = "raised" THEN 1 ELSE 0])
    /\ pc' = "idle"
    /\ UNCHANGED <<fs, cwd, home, names, force, names_to_dotfiles, cur, out, results, call,
                   config, stream, saved>>

\* what the dotfiles directory of the working directory holds before init
Stores ==
    LET dir == Repo \o <<"dotfiles">>
        entry(n) == CASE n = ".b" -> With(One(dir \o <<n>>, Dir),
                                          One(dir \o <<n, "f">>, File(<<"2", "\n">>)))
                      [] OTHER    -> One(dir \o <<n>>, File(<<"1", "\n">>))
        RECURSIVE all(_)
        all(S) == IF S = {} THEN One(dir, Dir)
                  ELSE LET n == CHOOSE x \in S : TRUE IN With(all(S \ {n}), entry(n))
    IN  {Nothing, One(dir, File(<<"7", "\n">>))} \cup {all(S) : S \in SUBSET {".a", ".b", "c"}}

\* what is at config.yaml before init
OldConfigs ==
    {Nothing, One(ConfigPath(Repo), File(Document(<<>>))), One(ConfigPath(Repo), Dir)}

\* the path arguments: the working directory, a directory to be made, a file
InitPaths == {Rel(<<>>), Rel(<<"n">>), Abs(Other \o <<"f">>)}

InitInit ==
    /\ cwd = Repo
    /\ home = <<"h">>
    /\ \E st \in Stores, oc \in OldConfigs :
          fs = With(With(One(Repo, Dir), With(One(Other, Dir), One(Other \o <<"f">>, File(<<"4", "\n">>)))),
                    With(st, oc))
    /\ pc = "idle"
    /\ names = <<>>
    /\ force = FALSE
    /\ names_to_dotfiles = Nothing
    /\ cur = NoCur
    /\ out = <<>>
    /\ results = <<>>
    /\ call = [path |-> Rel(<<>>), git_url |-> FALSE, cwd |-> Repo, before |-> Nothing]
    /\ hist = <<>>
    /\ config = <<>>
    /\ stream = <<>>
    /\ saved = <<>>

NextInit ==
    \/ \E path \in InitPaths, git_url \in BOOLEAN : init_begin(path, git_url)
    \/ init_clone_cd
    \/ \E ok \in BOOLEAN, tree \in Clones : clone_git_repo(ok, tree)
    \/ clone_cd_dotfiles
    \/ \E ok \in BOOLEAN : clone_submodules(ok)
    \/ init_cd
    \/ init_populate
    \/ init_exit

SpecInit == InitInit /\ [][NextInit]_vars

(***************************************************************************)
(* grab(path, force=False)                                                 *)
(***************************************************************************)
\* POT_HOME, line 41: ~/.pot expanded
POT_HOME(hm) == expanduser(hm, <<"~", ".pot">>)

basename(p) == p[Len(p)]

\* the filesystem with the subtree at src taken to dst, in place of what dst held
Renamed(f, src, dst) ==
    LET kept == {q \in DOMAIN f : ~IsPrefix(src, q) /\ ~IsPrefix(dst, q)}
        to(q) == dst \o SubSeq(q, Len(src) + 1, Len(q))
        gone == {q \in DOMAIN f : IsPrefix(src, q)}
    IN  [q \in kept \cup {to(x) : x \in gone} |->
            IF q \in kept THEN f[q] ELSE f[CHOOSE x \in gone : to(x) = q]]

\* os.rename: a file or link replaces a file or link, a directory replaces
\* an empty directory
os_rename(f, src, dst) ==
    IF src \notin DOMAIN f \/ ~ParentIsDir(f, dst) \/ IsPrefix(src, dst) THEN Raise(f)
    ELSE IF dst \notin DOMAIN f THEN Ok(Renamed(f, src, dst))
    ELSE IF f[src].kind # "dir" /\ f[dst].kind # "dir" THEN Ok(Renamed(f, src, dst))
    ELSE IF f[src].kind = "dir" /\ f[dst].kind = "dir"
            /\ \A q \in DOMAIN f : IsPrefix(dst, q) => q = dst
    THEN Ok(Renamed(f, src, dst))
    ELSE Raise(f)

\* shutil.copy2 followed by os.unlink(src)
copy2_unlink(f, src, dst) ==
    IF ~isfile(f, src) \/ ~ParentIsDir(f, dst) \/ isdir(f, dst) THEN Raise(f)
    ELSE Ok(Without(With(f, One(dst, File(f[realpath(f, src)].content))), {src}))

\* shutil.move: into dst when dst is a directory, else onto dst; by rename,
\* and when rename fails by copy and removal
shutil_move(f, src, dst) ==
    LET real_dst == IF isdir(f, dst) THEN dst \o <<basename(src)>> ELSE dst
        renamed  == os_rename(f, src, real_dst)
        copied   == copytree(f, src, real_dst)
    IN  IF isdir(f, dst) /\ exists(f, real_dst) THEN Raise(f)
        ELSE IF renamed.ok THEN renamed
        ELSE IF isdir(f, src)
        THEN IF copied.ok THEN rmtree(copied.fs, src) ELSE Raise(copied.fs)
        ELSE copy2_unlink(f, src, real_dst)

\* line 286
dotfiles_dir(hm, path) == POT_HOME(hm) \o <<"dotfiles", basename(path)>>

\* line 289: os.path.exists(os.path.join(dotfiles_dir, filename))
AlreadyStored(f, hm, path) == exists(f, dotfiles_dir(hm, path) \o <<basename(path)>>)

\* lines 284-292.  The format string of logger.error at line 290 ('"%" ...')
\* is malformed: the handler fails to format the record and logging prints its
\* own traceback to stderr instead of the message; either way an error-level
\* record is written and grab returns.
grab_move(path, frc) ==
    /\ pc = "idle"
    /\ hist = <<>>
    /\ call' = [path |-> path, force |-> frc, before |-> fs]
    /\ force' = frc
    /\ LET said == <<Event("print", "Moving", path)>>
           r == shutil_move(fs, path, dotfiles_dir(home, path))
       IN  IF AlreadyStored(fs, home, path) /\ ~frc
           THEN /\ out' = said \o <<Event("error", "already exists", path)>>
                /\ pc' = "done"
                /\ UNCHANGED fs
           ELSE /\ fs' = r.fs
                /\ out' = IF r.ok THEN said ELSE said \o <<Failed>>
                /\ pc' = IF r.ok THEN "moved" ELSE "raised"
    /\ UNCHANGED <<cwd, home, names, names_to_dotfiles, cur, results, hist, config, stream, saved>>

\* lines 294-295
grab_symlink ==
    /\ pc = "moved"
    /\ LET said == <<Event("print", "Symlinking", call.path)>>
           r == os_symlink(fs, dotfiles_dir(home, call.path), call.path)
       IN  /\ fs' = r.fs
           /\ out' = IF r.ok THEN out \o said ELSE out \o said \o <<Failed>>
           /\ pc' = IF r.ok THEN "done" ELSE "raised"
    /\ UNCHANGED <<cwd, home, names, force, names_to_dotfiles, cur, results, call, hist,
                   config, stream, saved>>

\* main, lines 329-333
grab_exit ==
    /\ pc \in {"done", "raised"}
    /\ hist' = Append(hist, [call |-> call, out |-> out, after |-> fs,
                             status |-> IF pc = "raised" THEN 1 ELSE 0])
    /\ pc' = "idle"
    /\ UNCHANGED <<fs, cwd, home, names, force, names_to_dotfiles, cur, out, results, call,
                   config, stream, saved>>

GrabKinds == {"absent", "file", "dir", "link"}

StoredKinds == {"norepo", "absent", "file", "empty", "holds", "other"}

\* the dotfile at p
GrabPiece(p, kind) ==
    CASE kind = "file" -> One(p, File(<<"8", "\n">>))
      [] kind = "dir"  -> With(One(p, Dir), One(p \o <<"f">>, File(<<"9", "\n">>)))
      [] kind = "link" -> One(p, Link(Other \o <<"f">>))
      [] OTHER         -> Nothing

\* the repository POT_HOME and what it stores under the name
StoredPiece(hm, name, kind) ==
    LET repo == With(One(POT_HOME(hm), Dir), One(POT_HOME(hm) \o <<"dotfiles">>, Dir))
        d    == POT_HOME(hm) \o <<"dotfiles", name>>
        at   == CASE kind = "file"  -> One(d, File(<<"1", "\n">>))
                  [] kind = "empty" -> One(d, Dir)
                  [] kind = "holds" -> With(One(d, Dir), One(d \o <<name>>, File(<<"2", "\n">>)))
                  [] kind = "other" -> With(One(d, Dir), One(d \o <<"g">>, File(<<"3", "\n">>)))
                  [] OTHER          -> Nothing
    IN  IF kind = "norepo" THEN Nothing ELSE With(repo, at)

\* the paths a caller may pass
GrabPaths == {hm \o <<"a">> : hm \in Homes} \cup {Other \o <<"f">>}

InitGrab ==
    /\ cwd = Repo
    /\ home \in Homes
    /\ \E gk \in GrabKinds, sk \in StoredKinds :
          fs = With(With(One(home, Dir),
                         With(One(Other, Dir), One(Other \o <<"f">>, File(<<"4", "\n">>)))),
                    With(GrabPiece(home \o <<"a">>, gk), StoredPiece(home, "a", sk)))
    /\ pc = "idle"
    /\ names = <<>>
    /\ force = FALSE
    /\ names_to_dotfiles = Nothing
    /\ cur = NoCur
    /\ out = <<>>
    /\ results = <<>>
    /\ call = [path |-> <<>>, force |-> FALSE, before |-> Nothing]
    /\ hist = <<>>
    /\ config = <<>>
    /\ stream = <<>>
    /\ saved = <<>>

NextGrab ==
    \/ \E path \in GrabPaths, frc \in BOOLEAN : grab_move(path, frc)
    \/ grab_symlink
    \/ grab_exit

SpecGrab == InitGrab /\ [][NextGrab]_vars

(***************************************************************************)
(* Vocabulary of the properties                                            *)
(***************************************************************************)
\* the results of the iterations finished so far, in this run
Done == DOMAIN results

\* the text of a regular file
TextAt(f, p) == f[realpath(f, p)].content

\* the subtree at p is the same in f and g
SameAt(f, g, p) ==
    \A q \in DOMAIN f \cup DOMAIN g :
        IsPrefix(p, q) => q \in DOMAIN f /\ q \in DOMAIN g /\ f[q] = g[q]

\* in g, dst is a duplicate of what src is in f, and no link
IsCopy(f, g, src, dst) ==
    LET root  == realpath(f, src)
        to(q) == dst \o SubSeq(q, Len(root) + 1, Len(q))
    IN  /\ dst \in DOMAIN g
        /\ g[dst].kind = f[root].kind
        /\ \A q \in DOMAIN f : IsPrefix(root, q) => to(q) \in DOMAIN g /\ g[to(q)] = f[q]
        /\ \A t \in DOMAIN g : IsPrefix(dst, t) => \E q \in DOMAIN f : IsPrefix(root, q) /\ to(q) = t

\* the lines of a text: the runs between newlines, without the empty run
\* after a final newline
RECURSIVE Lines(_)
Lines(text) ==
    IF text = <<>> THEN <<>>
    ELSE IF \E i \in DOMAIN text : text[i] = "\n"
    THEN LET i == CHOOSE k \in DOMAIN text : text[k] = "\n" /\ \A j \in 1..(k - 1) : text[j] # "\n"
         IN  <<SubSeq(text, 1, i - 1)>> \o Lines(SubSeq(text, i + 1, Len(text)))
    ELSE <<text>>

RECURSIVE Trim(_)
Trim(l) ==
    IF l = <<>> THEN l
    ELSE IF IsSpace(Head(l)) THEN Trim(Tail(l))
    ELSE IF IsSpace(l[Len(l)]) THEN Trim(SubSeq(l, 1, Len(l) - 1))
    ELSE l

\* the iteration r logged or printed msg about arg
Reported(r, msg, arg) == \E i \in DOMAIN r.said : r.said[i].msg = msg /\ r.said[i].arg = arg

\* the path the entry's target stands for under the home directory in effect
Expanded(target) == IF Head(target) = "~" THEN home \o Tail(target) ELSE target

\* the absolute path of the entry's file in the dotfiles directory of the repository
Stored(name) == cwd \o <<"dotfiles", name>>

(***************************************************************************)
(* Properties                                                              *)
(***************************************************************************)
\* C1: an include entry installed by two runs in a row: the destination file
\* is after the second run what it was after the first, for every text the
\* file held at the start.
C1_SecondIncludeAppendsNothing ==
    Len(hist) = 2 =>
        \A i \in DOMAIN hist[1].results :
            LET r == hist[1].results[i]
            IN  r.action = "include" /\ r.result \in {"included", "found"}
                    => TextAt(hist[2].after, r.dst) = TextAt(hist[1].after, r.dst)

\* C2: an exception in the removal or the placement of one entry does not
\* end the run: the names after it are still processed.
C2_FailureDoesNotAbort ==
    pc = "raised" => names = <<>>

\* C3 as stated: a symlink or copy entry, force unset, and at dst an object
\* that is neither a broken link nor a link resolving to src: a conflict is
\* reported, nothing is removed or placed, the object at dst is unchanged.
C3_Conflict(r) ==
    /\ r.result = "conflict"
    /\ Reported(r, "File exists", r.dst)
    /\ r.removal = ""
    /\ SameAt(r.pre, r.post, r.dst)

C3_Case(r) ==
    /\ r.action \in {"symlink", "copy"}
    /\ ~force
    /\ r.dst \in DOMAIN r.pre
    /\ ~(r.pre[r.dst].kind = "link" /\ realpath(r.pre, r.dst) = NoPath)
    /\ ~(r.pre[r.dst].kind = "link" /\ realpath(r.pre, r.dst) # NoPath
            /\ realpath(r.pre, r.dst) = realpath(r.pre, r.src))

C3_AsStated ==
    \A i \in Done : C3_Case(results[i]) => C3_Conflict(results[i])

\* C3, amended: the same for an entry whose src exists.
C3_ConflictLeavesDst ==
    \A i \in Done :
        C3_Case(results[i]) /\ realpath(results[i].pre, results[i].src) # NoPath
            => C3_Conflict(results[i])

C3_Witness ==
    \E i \in Done :
        /\ C3_Case(results[i]) /\ realpath(results[i].pre, results[i].src) # NoPath
        /\ results[i].pre[results[i].dst].kind = "link"
        /\ results[i].result = "conflict"

\* C4: force set, a symlink or copy entry whose src exists, any object at
\* dst: after the entry dst holds the placement, a link to src for symlink,
\* a copy of src for copy.
C4_ForceReplaces ==
    \A i \in Done :
        LET r == results[i]
        IN  /\ force
            /\ r.action \in {"symlink", "copy"}
            /\ realpath(r.pre, r.src) # NoPath
            /\ r.dst \in DOMAIN r.pre
            => /\ r.removal # ""
               /\ r.action = "symlink" => r.dst \in DOMAIN r.post /\ r.post[r.dst] = Link(r.src)
               /\ r.action = "copy" => IsCopy(r.pre, r.post, r.src, r.dst)

\* C5 as stated: force unset and a broken link at dst: no conflict is
\* reported, the broken link is removed and, for a symlink entry, dst is
\* afterwards a link that resolves to src.
C5_Replaced(r) ==
    /\ r.result # "conflict"
    /\ ~Reported(r, "File exists", r.dst)
    /\ r.removal = "remove"
    /\ r.action = "symlink" =>
            /\ r.dst \in DOMAIN r.post
            /\ r.post[r.dst].kind = "link"
            /\ realpath(r.post, r.dst) # NoPath
            /\ realpath(r.post, r.dst) = realpath(r.post, r.src)

C5_Case(r) ==
    /\ ~force
    /\ r.result # "nosuch"
    /\ r.dst \in DOMAIN r.pre
    /\ r.pre[r.dst].kind = "link"
    /\ realpath(r.pre, r.dst) = NoPath

C5_AsStated ==
    \A i \in Done : C5_Case(results[i]) => C5_Replaced(results[i])

\* C5, amended: the same for a symlink or copy entry whose src exists.
C5_BrokenLinkReplaced ==
    \A i \in Done :
        /\ C5_Case(results[i])
        /\ results[i].action \in {"symlink", "copy"}
        /\ realpath(results[i].pre, results[i].src) # NoPath
        => C5_Replaced(results[i])

C5_Witness ==
    \E i \in Done :
        /\ C5_Case(results[i])
        /\ results[i].action = "symlink"
        /\ results[i].result = "symlinked"

\* C6: when the object removed at dst is a link to a directory, the link
\* is all that goes: the rest of the filesystem, the directory and what it
\* holds, is as before; and only a real directory is removed recursively.
C6_RemovedLinkOnly(e, now) ==
    /\ e.removal = "rmtree" => e.dst \in DOMAIN e.pre /\ e.pre[e.dst].kind = "dir"
    /\ (e.removal # "" /\ e.pre[e.dst].kind = "link"
          /\ realpath(e.pre, e.dst) # NoPath /\ e.pre[realpath(e.pre, e.dst)].kind = "dir")
        => /\ e.removal = "remove"
           /\ DOMAIN e.pre \ {e.dst} \subseteq DOMAIN now
           /\ \A q \in DOMAIN e.pre \ {e.dst} : now[q] = e.pre[q]
           /\ \A q \in DOMAIN now : IsPrefix(realpath(e.pre, e.dst), q) => q \in DOMAIN e.pre

C6_LinkToDirRemoved ==
    /\ pc = "place" => C6_RemovedLinkOnly(cur, fs) /\ (cur.removal # "" => cur.dst \notin DOMAIN fs)
    /\ \A i \in Done : C6_RemovedLinkOnly(results[i], results[i].post)

C6_Witness ==
    /\ pc = "place"
    /\ cur.removal = "remove"
    /\ cur.pre[cur.dst].kind = "link"
    /\ realpath(cur.pre, cur.dst) # NoPath
    /\ cur.pre[realpath(cur.pre, cur.dst)].kind = "dir"
    /\ Cardinality({q \in DOMAIN fs : IsPrefix(realpath(cur.pre, cur.dst), q)}) > 1

\* C7 as stated: a symlink entry whose src exists and whose dst does not:
\* after the entry dst is a link whose target is the absolute path of the
\* entry's file in the dotfiles directory, dst being the target with ~
\* expanded against the home directory.
C7_Linked(r) ==
    /\ r.dst = Expanded(r.target)
    /\ r.dst \in DOMAIN r.post
    /\ r.post[r.dst] = Link(Stored(r.name))

C7_Case(r) ==
    /\ r.action = "symlink"
    /\ realpath(r.pre, Stored(r.name)) # NoPath
    /\ Expanded(r.target) \notin DOMAIN r.pre

C7_AsStated ==
    \A i \in Done : C7_Case(results[i]) => C7_Linked(results[i])

\* C7, amended: the same when the directory that is to hold dst exists.
C7_SymlinkCreated ==
    \A i \in Done :
        C7_Case(results[i]) /\ ParentIsDir(results[i].pre, Expanded(results[i].target))
            => C7_Linked(results[i])

C7_Witness ==
    \E i \in Done :
        /\ C7_Case(results[i])
        /\ Head(results[i].target) = "~"
        /\ results[i].result = "symlinked"
        /\ results[i].removal = ""

\* C8: a copy entry whose src exists and whose dst does not: after the
\* entry dst is a duplicate of src and no link, the whole tree when src is
\* a directory, the file when src is a file.
C8_CopyDuplicates ==
    \A i \in Done :
        LET r == results[i]
        IN  /\ r.action = "copy"
            /\ realpath(r.pre, r.src) # NoPath
            /\ r.dst \notin DOMAIN r.pre
            => IsCopy(r.pre, r.post, r.src, r.dst)

\* C9: an include entry whose dst does not exist: install creates dst, and
\* its text is then the inclusion line and a newline.
C9_IncludeCreates ==
    \A i \in Done :
        LET r == results[i]
        IN  /\ r.action = "include"
            /\ realpath(r.pre, r.src) # NoPath
            /\ r.dst \notin DOMAIN r.pre
            /\ ParentIsDir(r.pre, r.dst)
            => /\ r.dst \in DOMAIN r.post
               /\ r.post[r.dst] = File(<<".", " ">> \o PathStr(Stored(r.name)) \o <<"\n">>)

\* C10: an include entry whose dst is a file with no line that is the
\* inclusion line: after the entry the text of dst is the old text, the
\* inclusion line and a newline, and the inclusion line is a line of it
\* once, the last one.
C10_IncludeAppendsLastLine ==
    \A i \in Done :
        LET r    == results[i]
            line == <<".", " ">> \o PathStr(Stored(r.name))
            old  == r.pre[r.dst].content
            new  == r.post[r.dst].content
        IN  /\ r.action = "include"
            /\ realpath(r.pre, r.src) # NoPath
            /\ r.dst \in DOMAIN r.pre
            /\ r.pre[r.dst].kind = "file"
            /\ \A k \in DOMAIN Lines(old) : Trim(Lines(old)[k]) # line
            => /\ new = old \o line \o <<"\n">>
               /\ Cardinality({k \in DOMAIN Lines(new) : Lines(new)[k] = line}) = 1
               /\ Lines(new)[Len(Lines(new))] = line

\* C11: a skip (a name that is not in the manifest, a missing source, a
\* conflict at dst) changes nothing and does not end the run: the next name
\* of the order is taken, on the filesystem the skipped one found, and a run
\* that ends without an exception has taken every name of the order.
C11_Skip(r) == r.result \in {"nosuch", "missing", "conflict"}

C11_SkipDoesNotAbort ==
    /\ \A i \in Done :
          C11_Skip(results[i]) =>
            /\ results[i].post = results[i].pre
            /\ i = Len(results) => pc # "raised"
            /\ i < Len(results) =>
                  /\ results[i + 1].name = call.order[i + 1]
                  /\ results[i + 1].pre = results[i].pre
    /\ pc = "done" /\ (\E i \in Done : C11_Skip(results[i]))
          => /\ Len(results) = Len(call.order)
             /\ \A i \in Done : results[i].name = call.order[i]

C11_Witness ==
    /\ pc = "done"
    /\ Len(results) = 2
    /\ results[1].result = "conflict"
    /\ results[2].result = "symlinked"

\* C12: an entry of the manifest whose file is missing from the dotfiles
\* directory: the missing source is reported and the filesystem is after the
\* entry what it was before, nothing removed and nothing placed, whatever
\* force is and whatever is at dst.
C12_MissingSourceTouchesNothing ==
    \A i \in Done :
        LET r == results[i]
        IN  r.result # "nosuch" /\ realpath(r.pre, Stored(r.name)) = NoPath
              => /\ r.result = "missing"
                 /\ Reported(r, "Dotfile doesn't exists", Stored(r.name))
                 /\ r.removal = ""
                 /\ r.post = r.pre

C12_Witness ==
    \E i \in Done :
        /\ force
        /\ results[i].result = "missing"
        /\ results[i].dst \in DOMAIN results[i].pre
        /\ results[i].action \in {"symlink", "copy"}

\* C13: a Config serialized by to_yaml and loaded from the text by from_yaml:
\* the loaded Config has the triples (name, target, action) of the original,
\* as a set.
C13_Triples(c) == {<<c[i].name, c[i].target, c[i].action>> : i \in DOMAIN c}

C13_RoundTrip ==
    pc = "loaded" => C13_Triples(config) = C13_Triples(hist[1].config)

C13_Witness ==
    /\ pc = "loaded"
    /\ Len(config) = 2
    /\ config[1].name = "1"
    /\ config[2].name = "a"
    /\ config[1].target # config[2].target

\* C14: the text of to_yaml has, after the line of the key dotfiles, three
\* lines for each entry, in the order of the entries: name, target, action,
\* the first of them marked as the start of the entry; the target of an
\* entry built without one is ~/name.
C14_Field(l, mark, key, value) == l.mark = mark /\ l.key = <<key>> /\ l.value = value

C14_Order ==
    pc \in {"dumped", "loaded"} =>
        /\ Len(stream) = IF call.args = <<>> THEN 1 ELSE 1 + 3 * Len(call.args)
        /\ stream[1].key = <<"dotfiles">>
        /\ \A i \in DOMAIN call.args :
              LET a == call.args[i]
              IN  /\ C14_Field(stream[3 * i - 1], "-", "name", <<a.name>>)
                  /\ C14_Field(stream[3 * i], " ", "target",
                               IF "target" \in DOMAIN a THEN a.target ELSE <<"~", a.name>>)
                  /\ C14_Field(stream[3 * i + 1], " ", "action",
                               IF "action" \in DOMAIN a THEN <<a.action>> ELSE <<"symlink">>)

C14_Witness ==
    /\ pc = "dumped"
    /\ Len(call.args) = 2
    /\ call.args[1].name # call.args[2].name
    /\ "target" \notin DOMAIN call.args[2]
    /\ stream[6].value = <<"~", call.args[2].name>>

\* C15: no step of install changes config.yaml, and from the loading on no
\* step of the run changes the entries that were loaded.
C15_ManifestFile == IF ConfigPath(cwd) \in DOMAIN fs THEN <<fs[ConfigPath(cwd)]>> ELSE <<>>

C15_ManifestUntouched ==
    [][/\ C15_ManifestFile' = C15_ManifestFile
       /\ pc # "idle" => config' = config /\ names_to_dotfiles' = names_to_dotfiles]_vars

C15_Witness ==
    /\ pc = "done"
    /\ force
    /\ config # <<>>
    /\ fs # call.before
    /\ C15_ManifestFile = <<call.before[ConfigPath(cwd)]>>

\* C16: install without names, on a manifest of distinct names: the loop
\* takes the names of the entries in the order of the manifest.
C16_ManifestOrder ==
    (/\ pc # "idle"
     /\ call.all
     /\ ConfigPath(cwd) \in DOMAIN call.before
     /\ \A i, j \in DOMAIN config : config[i].name = config[j].name => i = j)
    => call.order = [i \in DOMAIN config |-> config[i].name]

\* C18: a run that finds no config.yaml processes no entry, leaves the
\* filesystem as it was and ends with a status other than 0; and a run in
\* which an entry failed does not end with status 0.
C18_MissingManifestExitsNonZero ==
    \A n \in DOMAIN hist :
        /\ ConfigPath(cwd) \notin DOMAIN hist[n].call.before
              => /\ hist[n].results = <<>>
                 /\ hist[n].after = hist[n].call.before
                 /\ hist[n].status # 0
        /\ hist[n].status = 0
              => \A i \in DOMAIN hist[n].results : hist[n].results[i].result # "failed"

\* C20: an include entry whose src exists and whose dst is a regular file:
\* the line counts as present exactly when a line of the old text, trimmed,
\* is the inclusion line; when present nothing is written, when not (also
\* when a longer line contains it) the text becomes the old text, the line
\* and a newline.
C20_Present(line, text) == \E k \in DOMAIN Lines(text) : Trim(Lines(text)[k]) = line

C20_WholeLineMatch ==
    \A i \in Done :
        LET r    == results[i]
            line == <<".", " ">> \o PathStr(Stored(r.name))
            at   == realpath(r.pre, r.dst)
            old  == r.pre[at].content
        IN  /\ r.action = "include"
            /\ realpath(r.pre, Stored(r.name)) # NoPath
            /\ at # NoPath
            /\ r.pre[at].kind = "file"
            => /\ r.result = "found" <=> C20_Present(line, old)
               /\ r.result = "included" <=> ~C20_Present(line, old)
               /\ C20_Present(line, old) => r.post = r.pre
               /\ ~C20_Present(line, old) => r.post[at].content = old \o line \o <<"\n">>

C20_Witness ==
    \E i \in Done :
        LET r    == results[i]
            line == <<".", " ">> \o PathStr(Stored(r.name))
            old  == r.pre[r.dst].content
        IN  /\ r.result = "included"
            /\ r.dst \in DOMAIN r.pre
            /\ r.pre[r.dst].kind = "file"
            /\ \E j \in 1..Len(old) : j + Len(line) - 1 <= Len(old)
                                        /\ SubSeq(old, j, j + Len(line) - 1) = line
            /\ r.post[r.dst].content = old \o line \o <<"\n">>

\* C17: outside the cd blocks of init the working directory is the one init
\* was called in, whether the block that was left ended normally or by an
\* exception (a failed chdir, a failed clone, failed submodules, a failed
\* write); inside a block the directories to go back to are the ones that
\* were current when it was entered; and init ends in the directory it
\* began in.
C17_CwdRestored ==
    /\ pc \in {"clone", "scan", "done", "raised"} => cwd = call.cwd /\ saved = <<>>
    /\ pc \in {"git", "sub", "populate"} => saved = <<call.cwd>>
    /\ pc = "modules" => saved = <<AbsPath(call.cwd, call.path), call.cwd>>
    /\ \A n \in DOMAIN hist : hist[n].cwd = hist[n].call.cwd

C17_Witness ==
    /\ pc = "scan"
    /\ call.git_url
    /\ AbsPath(call.cwd, call.path) # call.cwd
    /\ out = <<Event("print", "Cloning", <<>>), Failed>>
    /\ isdir(fs, AbsPath(call.cwd, call.path))
    /\ cwd = call.cwd

\* C19: when init has ended normally, the config.yaml of the repository
\* loads to one entry for each name of the dotfiles directory that begins
\* with a dot and to no other entry, each with the target ~/name and the
\* action symlink.
C19_Hidden(f, dir) ==
    {q[Len(q)] : q \in {x \in DOMAIN f : Len(x) = Len(dir) + 1 /\ IsPrefix(dir, x)
                                            /\ Head(Chars(x[Len(x)])) = "."}}

C19_InitManifest ==
    pc = "done" =>
        LET root   == AbsPath(call.cwd, call.path)
            loaded == from_yaml(fs[ConfigPath(root)].content)
            hidden == C19_Hidden(fs, root \o <<"dotfiles">>)
        IN  /\ {loaded[i].name : i \in DOMAIN loaded} = hidden
            /\ Len(loaded) = Cardinality(hidden)
            /\ \A i \in DOMAIN loaded :
                  /\ loaded[i].target = <<"~", loaded[i].name>>
                  /\ loaded[i].action = "symlink"

C19_Witness ==
    /\ pc = "done"
    /\ LET dir == AbsPath(call.cwd, call.path) \o <<"dotfiles">>
       IN  /\ dir \o <<".a">> \in DOMAIN fs
           /\ dir \o <<".b">> \in DOMAIN fs
           /\ dir \o <<"c">> \in DOMAIN fs
    /\ Len(config) = 2

\* C21: a symlink entry, force unset, whose dst is a link that resolves to
\* the file src resolves to: no conflict is reported, the link is removed and
\* made again, and dst is then a link to src; and the dst of an entry that a
\* run has linked is after every later run what it was after that run.
C21_Case(r) ==
    /\ r.action = "symlink"
    /\ ~force
    /\ realpath(r.pre, Stored(r.name)) # NoPath
    /\ r.dst \in DOMAIN r.pre
    /\ r.pre[r.dst].kind = "link"
    /\ realpath(r.pre, r.dst) = realpath(r.pre, Stored(r.name))

C21_Relinked ==
    /\ \A i \in Done :
          C21_Case(results[i]) =>
            /\ results[i].result = "symlinked"
            /\ ~Reported(results[i], "File exists", results[i].dst)
            /\ results[i].dst \in DOMAIN results[i].post
            /\ results[i].post[results[i].dst] = Link(Stored(results[i].name))
    /\ \A n \in DOMAIN hist : \A m \in DOMAIN hist :
          m > n =>
            \A i \in DOMAIN hist[n].results :
                LET r == hist[n].results[i]
                IN  r.action = "symlink" /\ r.result = "symlinked" /\ ~hist[n].call.force
                      => /\ r.dst \in DOMAIN hist[m].after
                         /\ hist[m].after[r.dst] = hist[n].after[r.dst]

C21_Witness ==
    /\ Len(hist) = 2
    /\ ~hist[2].call.force
    /\ \E i \in DOMAIN hist[1].results, j \in DOMAIN hist[2].results :
          /\ hist[1].results[i].result = "symlinked"
          /\ hist[1].results[i].removal = ""
          /\ hist[2].results[j].name = hist[1].results[i].name
          /\ hist[2].results[j].removal = "remove"
          /\ hist[2].results[j].result = "symlinked"
          /\ hist[2].after[hist[2].results[j].dst] = Link(hist[2].results[j].src)

\* C22: an include entry, whatever force is: nothing is removed; what was
\* at dst is still there, of the same kind and, for a link, with the same
\* target; the text of the file dst resolves to begins with its old text;
\* and nothing else in the filesystem changes.
C22_IncludeOnlyAppends ==
    \A i \in Done :
        LET r  == results[i]
            at == realpath(r.pre, r.dst)
        IN  r.action = "include" =>
              /\ r.removal = ""
              /\ DOMAIN r.post = DOMAIN r.pre
              /\ \A q \in DOMAIN r.pre :
                    /\ r.post[q].kind = r.pre[q].kind
                    /\ r.post[q].target = r.pre[q].target
                    /\ q # at => r.post[q] = r.pre[q]
              /\ (at # NoPath /\ r.pre[at].kind = "file") =>
                    /\ Len(r.pre[at].content) <= Len(r.post[at].content)
                    /\ SubSeq(r.post[at].content, 1, Len(r.pre[at].content)) = r.pre[at].content

C22_Witness ==
    \E i \in Done :
        /\ force
        /\ results[i].action = "include"
        /\ results[i].result = "included"
        /\ results[i].dst \in DOMAIN results[i].pre
        /\ results[i].post # results[i].pre

\* C23: every entry loaded from config.yaml has a name that is not empty and
\* one of the three actions, and the placement is never reached with another
\* action.
C23_LoadedEntriesValid ==
    /\ \A i \in DOMAIN config :
          /\ config[i].name # ""
          /\ config[i].action \in {"symlink", "copy", "include"}
    /\ pc = "place" => cur.action \in {"symlink", "copy", "include"}

\* C24: when the placement of a symlink or copy entry is about to run,
\* nothing is at dst, not even a broken link: either nothing was there when
\* the entry began, or what was there has been removed.
C24_PlacementFindsNothing ==
    pc = "place" /\ cur.action \in {"symlink", "copy"} =>
        /\ cur.dst \notin DOMAIN fs
        /\ \A q \in DOMAIN fs : ~IsPrefix(cur.dst, q)
        /\ cur.removal = "" <=> cur.dst \notin DOMAIN cur.pre

C24_Witness ==
    /\ pc = "place"
    /\ cur.action = "symlink"
    /\ cur.removal = "remove"
    /\ cur.pre[cur.dst].kind = "link"
    /\ realpath(cur.pre, cur.dst) = NoPath
    /\ cur.dst \notin DOMAIN fs

\* C25: a symlink or copy entry for which install removed what was at dst:
\* the placement completes, and when the entry is finished something is at
\* dst.
C25_RemovalThenPlacement ==
    \A i \in Done :
        LET r == results[i]
        IN  r.action \in {"symlink", "copy"} /\ r.removal # "" =>
              /\ r.result \in {"symlinked", "copied"}
              /\ r.dst \in DOMAIN r.post

\* C26: grab with force unset, when the dotfiles directory of POT_HOME
\* already holds an object of the name of path: an error is reported and the
\* filesystem is left as it was, nothing moved and no link made; and in every
\* case the link at path is made only after the move has succeeded.
C26_Stored(f, path) == (POT_HOME(home) \o <<"dotfiles", path[Len(path)]>>) \in DOMAIN f

C26_StoredEntryKept ==
    /\ (pc # "idle" /\ ~call.force /\ C26_Stored(call.before, call.path))
          => /\ fs = call.before
             /\ pc \in {"done", "raised"}
             /\ \E i \in DOMAIN out : out[i].level = "error"
    /\ (pc # "idle" /\ call.path \in DOMAIN fs /\ fs[call.path].kind = "link"
           /\ fs[call.path] # IF call.path \in DOMAIN call.before
                               THEN call.before[call.path] ELSE Dir)
          => /\ out[1] = Event("print", "Moving", call.path)
             /\ \A i \in DOMAIN out : out[i] # Failed
             /\ exists(fs, call.path)

====
